---- MODULE Spec2Model ----
(***************************************************************************)
(* Model of the Huffman coder of src/main.cpp.                             *)
(*                                                                         *)
(* A Coder reads a file, counts its characters, builds the table of        *)
(* probabilities (float), sorts it in decreasing order, builds the binary  *)
(* tree by combining the last two top-nodes (EncHuffman), walks the tree   *)
(* to assign the codewords (GenerateCode, with a function-static path      *)
(* string), and writes the table and the encoded text.  Decode loads the   *)
(* table from the file and matches the accumulated bits against it.        *)
(*                                                                         *)
(* Characters are the integers 1..NumChars (their order is the order of    *)
(* the map keys), bits are the integers 0 and 1 (the characters '0' and    *)
(* '1' of the source), a string of bits is a sequence.                     *)
(***************************************************************************)
EXTENDS Integers, Sequences, FiniteSets, TLC

\* ------------------------------------------------------------------ bounds
NumChars == 4      \* size of the alphabet
TextChars == 3     \* the chars 1..TextChars occur in the input files of Spec
MaxLen == 4        \* longest input file of Spec
MaxTotal == 9      \* longest input file of SpecBuild (sorted inputs)
MaxRuns == 2       \* calls of Encode on the same Coder
WalkTotal == 2     \* longest input of each of the two Coders of SpecWalk

Chars == 1..NumChars
NULL == 0          \* the null pointer
NoChar == 0        \* the ch of an internal node (never assigned, never read)
NoCode == 2        \* the lcode/rcode of a leaf (never assigned, never read)

\* ------------------------------------------------------------------ float
\* A positive float is [m, e] with 2^23 <= m < 2^24, of value m * 2^e
\* (IEEE-754 binary32, round to nearest, ties to even).
RECURSIVE Pow2(_)
Pow2(n) == IF n = 0 THEN 1 ELSE 2 * Pow2(n - 1)

RoundQ(q, r, d) == IF 2 * r > d \/ (2 * r = d /\ q % 2 = 1) THEN q + 1 ELSE q

Norm(m, e) == IF m = Pow2(24) THEN [m |-> Pow2(23), e |-> e + 1]
                              ELSE [m |-> m, e |-> e]

RECURSIVE DivShift(_, _, _)
DivShift(c, t, k) == IF c * Pow2(k) >= Pow2(23) * t THEN k
                     ELSE DivShift(c, t, k + 1)

\* float(c) / float(t) for integers 0 < c <= t < 128
FDiv(c, t) == LET k == DivShift(c, t, 0)
                  n == c * Pow2(k)
              IN  Norm(RoundQ(n \div t, n % t, t), 0 - k)

RECURSIVE AddShift(_, _)
AddShift(s, n) == IF s < Pow2(24 + n) THEN n ELSE AddShift(s, n + 1)

\* a + b in float
FAdd(a, b) == LET hi == IF a.e >= b.e THEN a ELSE b
                  lo == IF a.e >= b.e THEN b ELSE a
                  s == hi.m * Pow2(hi.e - lo.e) + lo.m
                  n == AddShift(s, 0)
                  d == Pow2(n)
              IN  Norm(RoundQ(s \div d, s % d, d), lo.e + n)

\* a < b in float
FLess(a, b) == a.e < b.e \/ (a.e = b.e /\ a.m < b.m)

\* ------------------------------------------------------------ the file
\* Number of occurrences of c in the text s
Count(s, c) == Cardinality({i \in 1..Len(s) : s[i] = c})

RECURSIVE Repeat(_, _)
Repeat(c, n) == IF n = 0 THEN << >> ELSE <<c>> \o Repeat(c, n - 1)

\* The text with f[c] occurrences of each c, in increasing order of c
RECURSIVE Canon(_, _)
Canon(f, c) == IF c > NumChars THEN << >>
               ELSE Repeat(c, f[c]) \o Canon(f, c + 1)

RECURSIVE SumTo(_, _)
SumTo(f, c) == IF c = 0 THEN 0 ELSE f[c] + SumTo(f, c - 1)

Texts == UNION {[1..n -> {c \in Chars : c <= TextChars}] : n \in 0..MaxLen}

SortedTexts == {Canon(f, 1) : f \in {g \in [Chars -> 0..MaxTotal] :
                                        SumTo(g, NumChars) <= MaxTotal}}


\* ------------------------------------------------------------ the state
VARIABLES
  input,     \* the text of the input file of Encode
  pc,        \* the position of the program
  run,       \* number of the current call of Encode on the Coder
  freqs,     \* Encode: frequency for each char from input text (0: no entry)
  total,     \* Encode: number of chars read
  tsize,     \* Coder::tsize
  ptable,    \* Coder::ptable, a sequence of pnode [ch, p]
  nodes,     \* the treenodes allocated by EncHuffman; a pointer is an index
  tops,      \* EncHuffman: the top-nodes (pointers)
  numtop,    \* EncHuffman: numtop
  stack,     \* the frames [node, at] of the active calls of GenerateCode
  sequence,  \* GenerateCode: the function-static string
  codes,     \* Coder::codes, a function from the chars that have an entry
  outfiles,  \* the output file [tsize, table, text] written by each call
  infile,    \* Decode: what it has read of its input file
  pos,       \* Decode: number of chars of the text read so far
  accum,     \* Decode: accum
  decoded,   \* Decode: the text written so far
  ub,        \* an undefined operation has been executed
  qsortFn,   \* the arrays qsort has sorted, with the result it gave
  walk       \* SpecWalk: the two Coders that walk their trees concurrently

vars == <<input, pc, run, freqs, total, tsize, ptable, nodes, tops, numtop,
          stack, sequence, codes, outfiles, infile, pos, accum, decoded, ub,
          qsortFn, walk>>

encVars == <<freqs, total, tsize, ptable>>
treeVars == <<nodes, tops, numtop>>
genVars == <<stack, sequence, codes>>
decVars == <<infile, pos, accum, decoded>>

NoFile == [tsize |-> 0, table |-> << >>, text |-> << >>]
NoCodes == << >>     \* the empty map

InitCommon ==
  /\ pc = "count"
  /\ run = 1
  /\ freqs = [c \in Chars |-> 0]
  /\ total = 0
  /\ tsize = 0
  /\ ptable = << >>
  /\ nodes = << >>
  /\ tops = << >>
  /\ numtop = 0
  /\ stack = << >>
  /\ sequence = << >>
  /\ codes = NoCodes
  /\ outfiles = << >>
  /\ infile = NoFile
  /\ pos = 0
  /\ accum = << >>
  /\ decoded = << >>
  /\ ub = FALSE
  /\ qsortFn = << >>
  /\ walk = << >>

Init == input \in Texts /\ InitCommon

InitBuild == input \in SortedTexts /\ InitCommon

\* ------------------------------------------------------------ Encode
\* Counting chars
CountChars ==
  /\ pc = "count"
  /\ freqs' = [c \in Chars |-> Count(input, c)]
  /\ total' = Len(input)
  /\ tsize' = Cardinality({c \in Chars : Count(input, c) > 0})
  /\ pc' = "table"
  /\ UNCHANGED <<input, run, ptable, treeVars, genVars, outfiles, decVars,
                 ub, qsortFn, walk>>

\* The entries of the map in the order of its keys, as pnodes
RECURSIVE TableFrom(_, _, _)
TableFrom(f, tot, c) ==
  IF c > NumChars THEN << >>
  ELSE (IF f[c] > 0 THEN <<[ch |-> c, p |-> FDiv(f[c], tot)]>> ELSE << >>)
       \o TableFrom(f, tot, c + 1)

pnode_compare(a, b) == IF FLess(a.p, b.p) THEN 1
                       ELSE IF FLess(b.p, a.p) THEN 0 - 1 ELSE 0

Perms(n) == {f \in [1..n -> 1..n] :
               \A i, j \in 1..n : i # j => f[i] # f[j]}

\* The arrays qsort may leave: the order of equal elements is unspecified
QsortResults(t) ==
  {s \in {[i \in 1..Len(t) |-> t[f[i]]] : f \in Perms(Len(t))} :
     \A i \in 1..(Len(t) - 1) : pnode_compare(s[i], s[i + 1]) <= 0}

\* Building decreasing freqs table.  qsort is a function: sorting the same
\* array again gives the same result.
BuildTable ==
  /\ pc = "table"
  /\ LET t == TableFrom(freqs, total, 1)
     IN  IF qsortFn # << >> /\ qsortFn[1] = t
         THEN ptable' = qsortFn[2] /\ UNCHANGED qsortFn
         ELSE \E s \in QsortResults(t) :
                ptable' = s /\ qsortFn' = <<t, s>>
  /\ pc' = "leaves"
  /\ UNCHANGED <<input, run, freqs, total, tsize, treeVars, genVars,
                 outfiles, decVars, ub, walk>>

\* ------------------------------------------------------------ EncHuffman
Leaf(e) == [ch |-> e.ch, p |-> e.p, lcode |-> NoCode, rcode |-> NoCode,
            left |-> NULL, right |-> NULL]

\* Creating leaves (initial top-nodes)
CreateLeaves ==
  /\ pc = "leaves"
  /\ nodes' = [i \in 1..tsize |-> Leaf(ptable[i])]
  /\ tops' = [i \in 1..tsize |-> i]
  /\ numtop' = tsize
  /\ pc' = "merge"
  /\ UNCHANGED <<input, run, encVars, genVars, outfiles, decVars, ub,
                 qsortFn, walk>>

\* EdgeCodes with the else branch giving both edges the code '1'
EdgeCodesSame(lp, rp) == IF FLess(lp, rp) THEN [l |-> 0, r |-> 1]
                                          ELSE [l |-> 1, r |-> 1]

\* EdgeCodes with the comparison turned round
EdgeCodesFlip(lp, rp) == IF FLess(rp, lp) THEN [l |-> 0, r |-> 1]
                                          ELSE [l |-> 1, r |-> 0]

\* The codes of the edges to the left and to the right child
EdgeCodes(lp, rp) == IF FLess(lp, rp) THEN [l |-> 0, r |-> 1]
                                      ELSE [l |-> 1, r |-> 0]

\* The node that combines the last two of the top-nodes ts (numtop = Len(ts))
Combine(ns, ts) ==
  LET l == ts[Len(ts) - 1]
      r == ts[Len(ts)]
      c == EdgeCodes(ns[l].p, ns[r].p)
  IN  [ch |-> NoChar, p |-> FAdd(ns[l].p, ns[r].p), lcode |-> c.l,
       rcode |-> c.r, left |-> l, right |-> r]

\* InsertPos without the scan: the new node is always pushed back
InsertPosEnd(ns, ts, np, i) == Len(ts) + 1

\* InsertPos with <= for <
RECURSIVE InsertPosLeq(_, _, _, _)
InsertPosLeq(ns, ts, np, i) ==
  IF i > Len(ts) THEN i
  ELSE IF ~FLess(np, ns[ts[i]].p) THEN i
  ELSE InsertPosLeq(ns, ts, np, i + 1)

\* The index of the first of the top-nodes ts of p less than np, or
\* Len(ts) + 1 when there is none
RECURSIVE InsertPos(_, _, _, _)
InsertPos(ns, ts, np, i) ==
  IF i > Len(ts) THEN i
  ELSE IF FLess(ns[ts[i]].p, np) THEN i
  ELSE InsertPos(ns, ts, np, i + 1)

InsertAt(ts, i, n) == SubSeq(ts, 1, i - 1) \o <<n>> \o SubSeq(ts, i, Len(ts))

\* The top-nodes after one iteration that allocated the node n
Replaced(ns, ts, n) ==
  LET rest == SubSeq(ts, 1, Len(ts) - 2)
  IN  InsertAt(rest, InsertPos(ns, rest, ns[n].p, 1), n)

\* One iteration of the loop: combining last two nodes, replacing them by
\* new node without invalidating sort
MergeStep ==
  /\ pc = "merge"
  /\ numtop > 1
  /\ LET ns == Append(nodes, Combine(nodes, tops))
     IN  /\ nodes' = ns
         /\ tops' = Replaced(ns, tops, Len(ns))
  /\ numtop' = numtop - 1
  /\ UNCHANGED <<input, pc, run, encVars, genVars, outfiles, decVars, ub,
                 qsortFn, walk>>

\* treenode *root = tops[0]; GenerateCode( root ) is called
Frame(n) == [node |-> n, at |-> "left"]

PickRoot ==
  /\ pc = "merge"
  /\ numtop <= 1
  /\ \/ /\ tops # << >>
        /\ stack' = <<Frame(tops[1])>>
        /\ pc' = "gen"
        /\ UNCHANGED <<nodes, ub>>
     \* tops[0] of an empty vector: the program crashes ...
     \/ /\ tops = << >>
        /\ ub' = TRUE
        /\ pc' = "crashed"
        /\ UNCHANGED <<nodes, stack>>
     \* ... or goes on with what it finds there, here a leaf
     \/ /\ tops = << >>
        /\ ub' = TRUE
        /\ \E c \in Chars :
             nodes' = <<Leaf([ch |-> c, p |-> FDiv(1, 1)])>>
        /\ stack' = <<Frame(1)>>
        /\ pc' = "gen"
  /\ UNCHANGED <<input, run, encVars, tops, numtop, sequence, codes,
                 outfiles, decVars, qsortFn, walk>>


\* ------------------------------------------------------------ GenerateCode
\* PopChar without the else branch: a string of one char is kept
PopCharKeep(seq) == IF Len(seq) > 1 THEN SubSeq(seq, 1, Len(seq) - 1) ELSE seq

\* The end of a call: the last char of the string is dropped
PopChar(seq) == IF Len(seq) > 1 THEN SubSeq(seq, 1, Len(seq) - 1) ELSE << >>

\* codes[c] = seq
Store(cs, c, seq) == (c :> seq) @@ cs

\* One step of the innermost active call of GenerateCode on the nodes ns:
\* the test of the left child, the test of the right child, or the end of
\* the call.  The result is the new stack, string and codes.
GenStep(ns, st, seq, cs) ==
  LET f == st[Len(st)]
      n == ns[f.node]
      below == SubSeq(st, 1, Len(st) - 1)
  IN  CASE f.at = "left" ->
             IF n.left # NULL
             THEN [stack |-> below \o <<[f EXCEPT !.at = "right"],
                                        Frame(n.left)>>,
                   sequence |-> Append(seq, n.lcode), codes |-> cs]
             ELSE [stack |-> below \o <<[f EXCEPT !.at = "right"]>>,
                   sequence |-> seq, codes |-> cs]
        [] f.at = "right" ->
             IF n.right # NULL
             THEN [stack |-> below \o <<[f EXCEPT !.at = "end"],
                                        Frame(n.right)>>,
                   sequence |-> Append(seq, n.rcode), codes |-> cs]
             ELSE [stack |-> below \o <<[f EXCEPT !.at = "end"]>>,
                   sequence |-> seq, codes |-> cs]
        [] f.at = "end" ->
             [stack |-> below,
              sequence |-> PopChar(seq),
              codes |-> IF n.left = NULL /\ n.right = NULL
                        THEN Store(cs, n.ch, seq) ELSE cs]

GenerateCode ==
  /\ pc = "gen"
  /\ LET r == GenStep(nodes, stack, sequence, codes)
     IN  /\ stack' = r.stack
         /\ sequence' = r.sequence
         /\ codes' = r.codes
         /\ pc' = IF r.stack = << >> THEN "destroy" ELSE "gen"
  /\ UNCHANGED <<input, run, encVars, treeVars, outfiles, decVars, ub,
                 qsortFn, walk>>

\* Cleaning: DestroyNode( root ); tops.clear()
DestroyNode ==
  /\ pc = "destroy"
  /\ nodes' = << >>
  /\ tops' = << >>
  /\ pc' = "table out"
  /\ UNCHANGED <<input, run, encVars, numtop, genVars, outfiles, decVars,
                 ub, qsortFn, walk>>

\* ------------------------------------------------------------ output
\* codes[c] of the source: a char without entry gets the empty string
CodeOf(cs, c) == IF c \in DOMAIN cs THEN cs[c] ELSE << >>

Touched(cs, c) == IF c \in DOMAIN cs THEN cs ELSE Store(cs, c, << >>)

RECURSIVE TouchAll(_, _, _)
TouchAll(cs, s, i) == IF i > Len(s) THEN cs
                      ELSE TouchAll(Touched(cs, s[i]), s, i + 1)

\* Outputing ptable and codes (the probability is not read back by Decode
\* and is left out of the file)
WriteTable ==
  /\ pc = "table out"
  /\ outfiles' = Append(outfiles,
       [tsize |-> tsize,
        table |-> [i \in 1..tsize |->
                     [ch |-> ptable[i].ch, code |-> CodeOf(codes, ptable[i].ch)]],
        text |-> << >>])
  /\ codes' = TouchAll(codes, [i \in 1..tsize |-> ptable[i].ch], 1)
  /\ pc' = "text out"
  /\ UNCHANGED <<input, run, encVars, treeVars, stack, sequence, decVars,
                 ub, qsortFn, walk>>

\* The codewords of the chars of the text s, one after the other
RECURSIVE EncodedText(_, _, _)
EncodedText(cs, s, i) == IF i > Len(s) THEN << >>
                         ELSE CodeOf(cs, s[i]) \o EncodedText(cs, s, i + 1)

\* Outputing encoded text, cleaning, closing files
WriteText ==
  /\ pc = "text out"
  /\ outfiles' = [outfiles EXCEPT ![Len(outfiles)].text =
                    EncodedText(codes, input, 1)]
  /\ codes' = NoCodes
  /\ ptable' = << >>
  /\ pc' = "encoded"
  /\ UNCHANGED <<input, run, freqs, total, tsize, treeVars, stack, sequence,
                 decVars, ub, qsortFn, walk>>

\* Encode is called again on the same Coder, for the same input file
EncodeAgain ==
  /\ pc = "encoded"
  /\ run < MaxRuns
  /\ run' = run + 1
  /\ freqs' = [c \in Chars |-> 0]
  /\ total' = 0
  /\ pc' = "count"
  /\ UNCHANGED <<input, tsize, ptable, treeVars, genVars, outfiles, decVars,
                 ub, qsortFn, walk>>

\* ------------------------------------------------------------ Decode
\* The values an uninitialized char code[128] may be read as
Garbage == {<< >>, <<0>>, <<1>>}

\* Loading codes.  The file is the last output of Encode, or what is left of
\* it when the last chars of its text are lost.  A %s that finds no codeword
\* leaves the buffer code as it was, uninitialized.
RECURSIVE Loaded(_, _, _)
Loaded(table, g, i) ==
  IF i = 0 THEN NoCodes
  ELSE Store(Loaded(table, g, i - 1), table[i].ch,
             IF table[i].code = << >> THEN g ELSE table[i].code)

LoadCodes ==
  /\ pc = "encoded"
  /\ LET out == outfiles[Len(outfiles)]
     IN  /\ infile' = [out EXCEPT !.text = << >>]
         /\ tsize' = out.tsize
         /\ \E g \in Garbage : codes' = Loaded(out.table, g, out.tsize)
         /\ ub' = (ub \/ \E i \in 1..out.tsize : out.table[i].code = << >>)
  /\ pos' = 0
  /\ accum' = << >>
  /\ decoded' = << >>
  /\ pc' = "decoding"
  /\ UNCHANGED <<input, run, freqs, total, ptable, treeVars, stack, sequence,
                 outfiles, qsortFn, walk>>

\* for( ci=codes.begin(); ci!=codes.end(); ++ci ): the entries from the char
\* c on are compared with accum, a match prints the char and clears accum
RECURSIVE Matched(_, _, _, _)
Matched(cs, c, acc, out) ==
  IF c > NumChars THEN [accum |-> acc, decoded |-> out]
  ELSE IF c \in DOMAIN cs /\ cs[c] = acc
       THEN Matched(cs, c + 1, << >>, Append(out, c))
       ELSE Matched(cs, c + 1, acc, out)

\* Decoding and outputing to file: fgetc returns one more char of the text
DecodeChar ==
  /\ pc = "decoding"
  /\ pos < Len(outfiles[Len(outfiles)].text)
  /\ LET ch == outfiles[Len(outfiles)].text[pos + 1]
         r == Matched(codes, 1, Append(accum, ch), decoded)
     IN  /\ infile' = [infile EXCEPT !.text = Append(@, ch)]
         /\ accum' = r.accum
         /\ decoded' = r.decoded
  /\ pos' = pos + 1
  /\ UNCHANGED <<input, pc, run, encVars, treeVars, genVars, outfiles,
                 ub, qsortFn, walk>>

\* fgetc returns EOF, at the end of the text Encode wrote or before it when
\* the file was cut: the loop ends, the files are closed, Decode returns
DecodeEnd ==
  /\ pc = "decoding"
  /\ pos <= Len(outfiles[Len(outfiles)].text)
  /\ pc' = "decoded"
  /\ UNCHANGED <<input, run, encVars, treeVars, genVars, outfiles, decVars,
                 ub, qsortFn, walk>>

Next == \/ CountChars \/ BuildTable \/ CreateLeaves \/ MergeStep \/ PickRoot
        \/ GenerateCode \/ DestroyNode \/ WriteTable \/ WriteText
        \/ EncodeAgain \/ LoadCodes \/ DecodeChar \/ DecodeEnd

Spec == Init /\ [][Next]_vars


\* The build alone, for the sorted texts up to MaxTotal chars (the build
\* reads the text only to count its chars)
NextBuild == \/ CountChars \/ BuildTable \/ CreateLeaves \/ MergeStep
             \/ PickRoot \/ GenerateCode

SpecBuild == InitBuild /\ [][NextBuild]_vars

\* ------------------------------------------------------------ two walks
\* The tree EncHuffman builds from the nodes ns with the top-nodes ts
RECURSIVE BuildTree(_, _)
BuildTree(ns, ts) ==
  IF Len(ts) <= 1 THEN [nodes |-> ns, tops |-> ts]
  ELSE LET ns2 == Append(ns, Combine(ns, ts))
       IN  BuildTree(ns2, Replaced(ns2, ts, Len(ns2)))

\* A Coder that has read the text t, got the sorted table s and built its
\* tree, at the call GenerateCode( root )
Walker(t, s) ==
  LET tr == BuildTree([i \in 1..Len(s) |-> Leaf(s[i])],
                      [i \in 1..Len(s) |-> i])
  IN  [input |-> t, nodes |-> tr.nodes, stack |-> <<Frame(tr.tops[1])>>,
       codes |-> NoCodes]

WalkTexts == {Canon(f, 1) : f \in {g \in [Chars -> 0..WalkTotal] :
                 SumTo(g, NumChars) \in 1..WalkTotal}}

PTableOf(t) == TableFrom([c \in Chars |-> Count(t, c)], Len(t), 1)

InitWalk ==
  /\ \E t1 \in WalkTexts, t2 \in WalkTexts :
       \E s1 \in QsortResults(PTableOf(t1)), s2 \in QsortResults(PTableOf(t2)) :
         walk = <<Walker(t1, s1), Walker(t2, s2)>>
  /\ input = << >>
  /\ pc = "walk"
  /\ run = 1
  /\ freqs = [c \in Chars |-> 0]
  /\ total = 0
  /\ tsize = 0
  /\ ptable = << >>
  /\ nodes = << >>
  /\ tops = << >>
  /\ numtop = 0
  /\ stack = << >>
  /\ sequence = << >>
  /\ codes = NoCodes
  /\ outfiles = << >>
  /\ infile = NoFile
  /\ pos = 0
  /\ accum = << >>
  /\ decoded = << >>
  /\ ub = FALSE
  /\ qsortFn = << >>

\* One step of GenerateCode of the Coder i; the string is the one static
\* string of the function
WalkStep(i) ==
  /\ pc = "walk"
  /\ walk[i].stack # << >>
  /\ LET r == GenStep(walk[i].nodes, walk[i].stack, sequence, walk[i].codes)
     IN  /\ walk' = [walk EXCEPT ![i].stack = r.stack, ![i].codes = r.codes]
         /\ sequence' = r.sequence
  /\ UNCHANGED <<input, pc, run, encVars, treeVars, stack, codes, outfiles,
                 decVars, ub, qsortFn>>

NextWalk == \E i \in 1..2 : WalkStep(i)

SpecWalk == InitWalk /\ [][NextWalk]_vars

\* ------------------------------------------------------------ properties
\* GenerateCode has returned to EncHuffman: the codes are built
Built == pc = "destroy"

IsPrefix(a, b) == Len(a) <= Len(b) /\ SubSeq(b, 1, Len(a)) = a

\* The output file of the last call of Encode
LastOut == outfiles[Len(outfiles)]

\* Decode has returned, and the file it read was the whole output of Encode
DecodedWhole == pc = "decoded" /\ infile.text = LastOut.text

\* C1: for every non-empty text, also one of a single distinct char, decoding
\* the whole encoded text with the table of the build gives back the text.
RoundTrip == (DecodedWhole /\ input # << >>) => decoded = input

\* The round trip holds for the texts of two distinct chars or more
RoundTripTwo == (DecodedWhole /\ tsize > 1) => decoded = input

RoundTripTwoWitness == DecodedWhole /\ tsize > 2 /\ decoded = input

\* C2: no codeword of the table of a build is a prefix of the codeword of a
\* different char.
PrefixFree ==
  Built => \A c, d \in DOMAIN codes :
             c # d => ~IsPrefix(codes[c], codes[d])

PrefixFreeWitness ==
  /\ Built
  /\ Cardinality(DOMAIN codes) = NumChars
  /\ \E c, d \in DOMAIN codes : Len(codes[c]) < Len(codes[d])

\* The chars of the text
Present == {c \in Chars : freqs[c] > 0}

RECURSIVE CostTo(_, _)
CostTo(len, c) ==
  IF c = 0 THEN 0
  ELSE (IF freqs[c] > 0 THEN freqs[c] * len[c] ELSE 0) + CostTo(len, c - 1)

RECURSIVE KraftTo(_, _, _)
KraftTo(len, D, c) ==
  IF c = 0 THEN 0
  ELSE (IF freqs[c] > 0 THEN Pow2(D - len[c]) ELSE 0) + KraftTo(len, D, c - 1)

\* The depth no optimal tree exceeds
Deepest == IF Present = {} THEN 0 ELSE Cardinality(Present) - 1

\* The lengths of the codewords of the binary prefix codes for the chars of
\* the text (Kraft); the empty codeword is a code for one char alone
PrefixLengths ==
  LET D == Deepest
      full == Pow2(D)
  IN  {len \in [Present -> IF D = 0 THEN {0} ELSE 1..D] :
         KraftTo(len, D, NumChars) <= full}

\* v is the least total cost of the binary prefix codes
IsMinCost(v) ==
  LET costs == {CostTo(len, NumChars) : len \in PrefixLengths}
  IN  v \in costs /\ \A w \in costs : v <= w

SingleSymbolCode ==
  (Built /\ tsize = 1) =>
     /\ Cardinality(DOMAIN codes) = 1
     /\ \A c \in DOMAIN codes : Len(codes[c]) >= 1

\* C5: the build of the empty text never reads an element of the empty
\* vector of top-nodes; its table is empty and the encoded text is empty.
EmptyInputDefined ==
  input = << >> =>
     /\ ~ub
     /\ pc # "crashed"
     /\ Built => codes = NoCodes
     /\ pc = "encoded" => LastOut.table = << >> /\ LastOut.text = << >>

\* Decode read a file that lost the end of its text, in the middle of a
\* codeword
CutInCodeword ==
  /\ Len(infile.text) < Len(LastOut.text)
  /\ accum # << >>
  /\ \A c \in DOMAIN codes : codes[c] # accum

\* C6: Decode of a text cut in the middle of a codeword does not return as a
\* successful decode.
TruncatedStream == ~(pc = "decoded" /\ CutInCodeword)

\* C7: the calls of Encode on the same text write the same table, also the
\* second call on the same Coder, which finds the static string and the
\* codes as the first call left them.
Deterministic ==
  \A i \in 1..Len(outfiles) :
     /\ outfiles[i].tsize = outfiles[1].tsize
     /\ outfiles[i].table = outfiles[1].table
     /\ (pc = "encoded" => outfiles[i].text = outfiles[1].text)

DeterministicWitness ==
  /\ pc = "encoded"
  /\ Len(outfiles) = 2
  /\ outfiles[2].tsize > 2
  /\ \E i \in 1..outfiles[2].tsize : Len(outfiles[2].table[i].code) > 1

\* The codes GenerateCode gives on the nodes ns when it runs alone
RECURSIVE Alone(_, _, _, _)
Alone(ns, st, seq, cs) ==
  IF st = << >> THEN cs
  ELSE LET r == GenStep(ns, st, seq, cs)
       IN  Alone(ns, r.stack, r.sequence, r.codes)

RootOf(ns) == CHOOSE n \in 1..Len(ns) :
                \A k \in 1..Len(ns) : ns[k].left # n /\ ns[k].right # n

\* C8: two walks over independent trees, interleaved step by step, record
\* for every leaf the codeword the walk records when it runs alone.
Reentrant ==
  \A i \in DOMAIN walk :
     walk[i].stack = << >> =>
        walk[i].codes = Alone(walk[i].nodes, <<Frame(RootOf(walk[i].nodes))>>,
                              << >>, NoCodes)

\* p of the i-th top-node
TopP(i) == nodes[tops[i]].p

\* The text of the frequencies a:5, b:2, c:1, d:1
Example == <<1, 1, 1, 1, 1, 2, 2, 3, 4>>

LeafOf(c) == CHOOSE n \in 1..Len(nodes) : nodes[n].left = NULL /\ nodes[n].ch = c

Children(n) == {nodes[n].left, nodes[n].right}

\* C9: at the start of every iteration of the loop the top-nodes are in
\* non-increasing order of p, so the last two have the two smallest p; the
\* new node has the sum of their p and stands immediately before the first
\* top-node of strictly smaller p (last if there is none).  For a:5, b:2,
\* c:1, d:1 the loop combines c with d, then that node with b, then with a.
MergeSmallest ==
  /\ pc = "merge" =>
       /\ numtop = Len(tops)
       /\ \A i \in 1..(numtop - 1) : ~FLess(TopP(i), TopP(i + 1))
       /\ \A i \in 1..(numtop - 2) :
            /\ ~FLess(TopP(i), TopP(numtop - 1))
            /\ ~FLess(TopP(i), TopP(numtop))
       /\ (nodes # << >> /\ nodes[Len(nodes)].left # NULL) =>
            LET n == Len(nodes)
                k == CHOOSE j \in 1..numtop : tops[j] = n
            IN  /\ \E j \in 1..numtop : tops[j] = n
                /\ nodes[n].p = FAdd(nodes[nodes[n].left].p,
                                     nodes[nodes[n].right].p)
                /\ \A i \in 1..(k - 1) : ~FLess(TopP(i), nodes[n].p)
                /\ k < numtop => FLess(TopP(k + 1), nodes[n].p)
  /\ (Built /\ input = Example) =>
       /\ Len(nodes) = 7
       /\ Children(5) = {LeafOf(3), LeafOf(4)}
       /\ Children(6) = {LeafOf(2), 5}
       /\ Children(7) = {LeafOf(1), 6}

MergeSmallestWitness ==
  /\ Built
  /\ input = Example
  /\ Len(codes[1]) = 1 /\ Len(codes[2]) = 2
  /\ Len(codes[3]) = 3 /\ Len(codes[4]) = 3

\* A step that is an iteration of the loop of EncHuffman labels the edges of
\* the node it makes as C10 says
EdgeLabelsStep ==
  (pc = "merge" /\ numtop > 1 /\ Len(nodes') = Len(nodes) + 1) =>
     LET n == nodes'[Len(nodes')]
         l == tops[numtop - 1]
         r == tops[numtop]
     IN  /\ n.left = l /\ n.right = r
         /\ {n.lcode, n.rcode} = {0, 1}
         /\ FLess(nodes[l].p, nodes[r].p) => n.lcode = 0 /\ n.rcode = 1
         /\ FLess(nodes[r].p, nodes[l].p) => n.rcode = 0 /\ n.lcode = 1
         /\ nodes[l].p = nodes[r].p => n.lcode = 1 /\ n.rcode = 0

\* C10: the node made by an iteration has the second-to-last top-node as
\* left child and the last one as right child, and the codes of its two
\* edges differ: the child of strictly smaller p has 0 and the other 1; for
\* equal p the left child has 1 and the right child 0.
EdgeLabels == [][EdgeLabelsStep]_vars

EdgeLabelsWitness ==
  /\ pc = "merge"
  /\ \E n \in 1..Len(nodes) :
       /\ nodes[n].left # NULL
       /\ nodes[nodes[n].left].p = nodes[nodes[n].right].p
  /\ \E n \in 1..Len(nodes) :
       /\ nodes[n].left # NULL
       /\ FLess(nodes[nodes[n].right].p, nodes[nodes[n].left].p)

====
